---- MODULE Spec2Model ----
(***************************************************************************)
(* A model of src/src/wiki/mod.rs: the path/URL codec, a Page backed by a  *)
(* markdown file, and the Wiki that collects the pages of a directory.     *)
(*                                                                         *)
(* Strings are sequences.  The codec works on sequences of characters; the *)
(* content of a page file is a sequence of tokens (see Tok).               *)
(***************************************************************************)
EXTENDS Integers, Sequences, FiniteSets, TLC

VARIABLES
    \* ---- codec run: one call of each conversion on chosen arguments
    base,        \* the base_path argument
    path,        \* the path argument
    url,         \* result of convert_path_to_url(base, path)
    back,        \* result of convert_url_to_path(base, url)
    cpc,         \* "start" -> "url" -> "path" ("idle": not run)
    \* ---- one Page and its backing file
    disk,        \* content of the backing file
    pstate,      \* "none": no Page value exists, "live": a Page exists
    page,        \* the fields of the Page
    io,          \* the last operation's file access and how it went
    ret,         \* "Ok" or "Err": what the last operation returned
    \* ---- one Wiki and the directory tree under its root
    fs,          \* what each entry of the tree is
    wpc,         \* "init": no Wiki yet, "ready", "panicked" ("idle": not run)
    pages,       \* Wiki::pages
    wop,         \* the last operation: "init", "new", "reload", "get", "fs"
    asked,       \* the url get was called with, while wop = "get"
    got,         \* what that get returned: an index of pages, 0 for None
    fs_changed   \* the tree changed since load_pages last ran

codecVars == <<base, path, url, back, cpc>>
pageVars == <<disk, pstate, page, io, ret>>
wikiVars == <<fs, wpc, pages, wop, asked, got, fs_changed>>
vars == <<codecVars, pageVars, wikiVars>>

(***************************************************************************)
(* Bounds.                                                                 *)
(***************************************************************************)
MaxBaseLen == 2
MaxPathLen == 6
MaxFileLen == 4
MaxBodyLen == 1

(***************************************************************************)
(* Strings.                                                                *)
(***************************************************************************)
Chars == {"/", "w", ".", "m", "d"}

Strs(alphabet, n) == UNION {[1..k -> alphabet] : k \in 0..n}

StartsWith(s, p) == Len(p) <= Len(s) /\ SubSeq(s, 1, Len(p)) = p

EndsWith(s, p) == Len(p) <= Len(s) /\ SubSeq(s, Len(s) - Len(p) + 1, Len(s)) = p

\* The literal ".md" of lines 25, 34 and 196.
MdExt == <<".", "m", "d">>

(***************************************************************************)
(* str::trim_left_matches(pat): all prefixes matching pat are removed,     *)
(* repeatedly.  An empty pattern removes nothing.                          *)
(***************************************************************************)
RECURSIVE trim_left_matches(_, _)
trim_left_matches(s, pat) ==
    IF pat # <<>> /\ StartsWith(s, pat)
    THEN trim_left_matches(SubSeq(s, Len(pat) + 1, Len(s)), pat)
    ELSE s

(***************************************************************************)
(* str::trim_right_matches(pat): all suffixes matching pat are removed,    *)
(* repeatedly.                                                             *)
(***************************************************************************)
RECURSIVE trim_right_matches(_, _)
trim_right_matches(s, pat) ==
    IF pat # <<>> /\ EndsWith(s, pat)
    THEN trim_right_matches(SubSeq(s, 1, Len(s) - Len(pat)), pat)
    ELSE s

convert_path_to_url(base_path, p) ==
    trim_right_matches(trim_left_matches(p, base_path), MdExt)

convert_url_to_path(base_path, u) == base_path \o u \o MdExt

(***************************************************************************)
(* File content.  A file is a sequence of tokens:                          *)
(*   "D"  the line "---\n", the literal of lines 132 and 144;              *)
(*   "t"  text that reads as a YAML document;                              *)
(*   "x"  text that the YAML scanner rejects.                              *)
(***************************************************************************)
Tok == {"D", "t", "x"}

Delim == <<"D">>

None == [some |-> FALSE, val |-> <<>>]

Some(v) == [some |-> TRUE, val |-> v]

\* Index of the first "D" of s, 0 when there is none: str::find("---\n").
FindDelim(s) ==
    IF \E i \in 1..Len(s) : s[i] = "D"
    THEN CHOOSE i \in 1..Len(s) : s[i] = "D" /\ \A j \in 1..(i - 1) : s[j] # "D"
    ELSE 0

(***************************************************************************)
(* yaml_rust::YamlLoader::load_from_str followed by Vec::pop, as the       *)
(* frontmatter crate calls them: an error when the scanner rejects the     *)
(* text, no document for empty text, else the document the text denotes    *)
(* (a document is represented by its text).                                *)
(***************************************************************************)
YamlLoad(text) ==
    IF \E i \in 1..Len(text) : text[i] = "x"
    THEN [ok |-> FALSE, doc |-> None]
    ELSE [ok |-> TRUE, doc |-> IF text = <<>> THEN None ELSE Some(text)]

(***************************************************************************)
(* frontmatter::parse_and_find_content.  A text that starts with "---\n"   *)
(* and holds a second "---\n" is split at the two markers: the text        *)
(* between them is loaded as YAML, the text after them is the content.     *)
(* Any other text is all content, with no metadata.                        *)
(***************************************************************************)
parse_and_find_content(text) ==
    IF StartsWith(text, Delim) /\ FindDelim(Tail(text)) # 0
    THEN LET rest == Tail(text)
             e == FindDelim(rest)
             y == YamlLoad(SubSeq(rest, 1, e - 1))
         IN  [ok |-> y.ok, meta |-> y.doc,
              content |-> SubSeq(rest, e + 1, Len(rest))]
    ELSE [ok |-> TRUE, meta |-> None, content |-> text]

(***************************************************************************)
(* yaml_rust::YamlEmitter::dump: the document start marker "---\n" and     *)
(* then the text of the document.                                          *)
(***************************************************************************)
YamlDump(doc) == Delim \o doc

(***************************************************************************)
(* hoedown's Html renderer: a function of the body alone.                  *)
(***************************************************************************)
HtmlOf(tok) ==
    CASE tok = "D" -> "<hr>"
      [] tok = "t" -> "<p>t</p>"
      [] OTHER -> "<p>x</p>"

Render(markdown) == [i \in 1..Len(markdown) |-> HtmlOf(markdown[i])]

(***************************************************************************)
(* The Page.  base_path and path are fixed; rendered is a history field:   *)
(* update_markdown has run on this Page.                                   *)
(***************************************************************************)
PageBase == <<"/", "w">>

PagePath == <<"/", "w", "/", "d", ".", "m", "d">>

\* The struct literal of new_from_file.
NewPage ==
    [url |-> convert_path_to_url(PageBase, PagePath),
     raw |-> <<>>, meta |-> None, markdown_raw |-> <<>>,
     markdown |-> <<>>, html |-> <<>>, rendered |-> FALSE]

read_from_file(p, content) == [p EXCEPT !.raw = content]

update_markdown_stale(p, markdown) ==
    [p EXCEPT !.markdown_raw = markdown, !.markdown = markdown,
              !.rendered = TRUE]

update_markdown(p, markdown) ==
    [p EXCEPT !.markdown_raw = markdown, !.markdown = markdown,
              !.html = Render(markdown), !.rendered = TRUE]

load_body_on_error(p) ==
    LET r == parse_and_find_content(p.raw)
    IN  IF r.ok
        THEN update_markdown([p EXCEPT !.meta = r.meta], r.content)
        ELSE update_markdown(p, p.raw)

load(p) ==
    LET r == parse_and_find_content(p.raw)
    IN  IF r.ok
        THEN update_markdown([p EXCEPT !.meta = r.meta], r.content)
        ELSE p

update_raw_open(p) ==
    [p EXCEPT !.raw = Delim
                      \o (IF p.meta.some THEN YamlDump(p.meta.val) ELSE <<>>)
                      \o p.markdown_raw]

update_raw(p) ==
    [p EXCEPT !.raw = Delim
                      \o (IF p.meta.some THEN YamlDump(p.meta.val) ELSE <<>>)
                      \o Delim
                      \o p.markdown_raw]

Prefixes(s) == {SubSeq(s, 1, k) : k \in 0..(Len(s) - 1)}

(***************************************************************************)
(* The directory tree under the Wiki's root: four entries with fixed       *)
(* paths.  Each is absent, a regular file whose content can be read, a     *)
(* regular file whose content cannot, a directory, or an entry for which   *)
(* the walk yields an error.                                               *)
(***************************************************************************)
WikiRoot == <<"/", "w">>

EntryPath ==
    << <<"/", "w", "/", "d", ".", "m", "d">>,
       <<"/", "w", "/", "d", ".", "m", "d", ".", "m", "d">>,
       <<"/", "w", "/", "m", ".", "m", "d">>,
       <<"/", "w", "/", "m">> >>

Entries == DOMAIN EntryPath

Kinds == {"absent", "file", "unreadable_file", "dir", "walk_err"}

\* Path::is_file
is_file(e) == fs[e] \in {"file", "unreadable_file"}

\* What Page::new_from_file returns for entry e, as far as the Wiki uses it.
WikiPage(e) ==
    [path |-> EntryPath[e], url |-> convert_path_to_url(WikiRoot, EntryPath[e])]

\* The orders in which WalkDir may yield the entries that exist.
Orders ==
    LET present == {e \in Entries : fs[e] # "absent"}
    IN  {o \in [1..Cardinality(present) -> present] :
            \A i, j \in DOMAIN o : i # j => o[i] # o[j]}

\* The loop of load_pages from the i-th entry on.
RECURSIVE walk(_, _, _)
walk(ps, order, i) ==
    IF i > Len(order)
    THEN [pages |-> ps, panicked |-> FALSE]
    ELSE LET e == order[i]
         IN  IF fs[e] = "walk_err"
             THEN [pages |-> ps, panicked |-> TRUE]
             ELSE IF is_file(e) /\ EndsWith(EntryPath[e], MdExt)
                               /\ fs[e] = "file"
                  THEN walk(Append(ps, WikiPage(e)), order, i + 1)
                  ELSE walk(ps, order, i + 1)

load_pages_append(ps, order) == walk(ps, order, 1)

load_pages(ps, order) == walk(IF ps # <<>> THEN <<>> ELSE ps, order, 1)

RECURSIVE get_from(_, _, _)
get_from(ps, u, i) ==
    IF i > Len(ps) THEN 0
    ELSE IF ps[i].url = u THEN i
    ELSE get_from(ps, u, i + 1)

RECURSIVE get_last_from(_, _, _)
get_last_from(ps, u, i) ==
    IF i < 1 THEN 0
    ELSE IF ps[i].url = u THEN i
    ELSE get_last_from(ps, u, i - 1)

get_last(ps, u) == get_last_from(ps, u, Len(ps))

get(ps, u) == get_from(ps, u, 1)

\* The urls get is asked for: those of the entries, and one of no entry.
AskedUrls == {WikiPage(e).url : e \in Entries} \cup {<<"/", "w">>}

(***************************************************************************)
(* Each component is checked on its own; the others stay idle.            *)
(***************************************************************************)
CodecIdle ==
    /\ base = <<>>
    /\ path = <<>>
    /\ url = <<>>
    /\ back = <<>>
    /\ cpc = "idle"

PageIdle ==
    /\ disk = <<>>
    /\ pstate = "none"
    /\ page = NewPage
    /\ io = "init"
    /\ ret = "Ok"

WikiIdle ==
    /\ fs = [e \in Entries |-> "absent"]
    /\ wpc = "idle"
    /\ pages = <<>>
    /\ wop = "init"
    /\ asked = <<>>
    /\ got = 0
    /\ fs_changed = FALSE

(***************************************************************************)
(* The codec run.                                                          *)
(***************************************************************************)
CodecInit ==
    /\ base \in Strs(Chars, MaxBaseLen)
    /\ path \in Strs(Chars, MaxPathLen)
    /\ url = <<>>
    /\ back = <<>>
    /\ cpc = "start"
    /\ PageIdle
    /\ WikiIdle

PathToUrl ==
    /\ cpc = "start"
    /\ url' = convert_path_to_url(base, path)
    /\ cpc' = "url"
    /\ UNCHANGED <<base, path, back, pageVars, wikiVars>>

UrlToPath ==
    /\ cpc = "url"
    /\ back' = convert_url_to_path(base, url)
    /\ cpc' = "path"
    /\ UNCHANGED <<base, path, url, pageVars, wikiVars>>

CodecNext == PathToUrl \/ UrlToPath

SpecCodec == CodecInit /\ [][CodecNext]_vars

(***************************************************************************)
(* The operations on the Page.                                             *)
(***************************************************************************)
PageInit ==
    /\ disk \in Strs(Tok, MaxFileLen)
    /\ pstate = "none"
    /\ page = NewPage
    /\ io = "init"
    /\ ret = "Ok"
    /\ CodecIdle
    /\ WikiIdle

\* Page::new_from_file: the read may fail (permissions, content that is not
\* UTF-8); then no Page is returned.
NewFromFile ==
    /\ \E readable \in BOOLEAN :
          IF readable
          THEN /\ page' = load(read_from_file(NewPage, disk))
               /\ pstate' = "live"
               /\ io' = "read_ok"
               /\ ret' = "Ok"
          ELSE /\ page' = NewPage
               /\ pstate' = "none"
               /\ io' = "read_err"
               /\ ret' = "Err"
    /\ UNCHANGED <<disk, codecVars, wikiVars>>

UpdateMarkdown ==
    /\ pstate = "live"
    /\ \E markdown \in Strs(Tok, MaxBodyLen) :
          page' = update_markdown(page, markdown)
    /\ io' = "none"
    /\ ret' = "Ok"
    /\ UNCHANGED <<disk, pstate, codecVars, wikiVars>>

\* Page::save_to_file: update_raw, then File::create, write_all, sync_all,
\* each of which may fail.  A failed create leaves the file alone; create
\* truncates, so a failed write leaves a prefix of raw.
SaveToFile ==
    /\ pstate = "live"
    /\ page' = update_raw(page)
    /\ \E outcome \in {"create_err", "write_err", "sync_err", "save_ok"} :
          /\ io' = outcome
          /\ ret' = IF outcome = "save_ok" THEN "Ok" ELSE "Err"
          /\ CASE outcome = "create_err" -> disk' = disk
               [] outcome = "write_err" -> disk' \in Prefixes(page'.raw)
               [] OTHER -> disk' = page'.raw
    /\ UNCHANGED <<pstate, codecVars, wikiVars>>

PageNext == NewFromFile \/ UpdateMarkdown \/ SaveToFile

SpecPage == PageInit /\ [][PageNext]_vars

(***************************************************************************)
(* The operations on the Wiki.                                             *)
(***************************************************************************)
WikiInit ==
    /\ fs \in [Entries -> Kinds]
    /\ wpc = "init"
    /\ pages = <<>>
    /\ wop = "init"
    /\ asked = <<>>
    /\ got = 0
    /\ fs_changed = FALSE
    /\ CodecIdle
    /\ PageIdle

\* Wiki::new
WikiNew ==
    /\ wpc = "init"
    /\ \E order \in Orders :
          LET r == load_pages(<<>>, order)
          IN  /\ pages' = r.pages
              /\ wpc' = IF r.panicked THEN "panicked" ELSE "ready"
    /\ wop' = "new"
    /\ fs_changed' = FALSE
    /\ UNCHANGED <<fs, asked, got, codecVars, pageVars>>

\* Wiki::load_pages on a Wiki that exists
Reload ==
    /\ wpc = "ready"
    /\ \E order \in Orders :
          LET r == load_pages(pages, order)
          IN  /\ pages' = r.pages
              /\ wpc' = IF r.panicked THEN "panicked" ELSE "ready"
    /\ wop' = "reload"
    /\ fs_changed' = FALSE
    /\ asked' = <<>>
    /\ got' = 0
    /\ UNCHANGED <<fs, codecVars, pageVars>>

\* Wiki::get
Get ==
    /\ wpc = "ready"
    /\ \E u \in AskedUrls :
          /\ asked' = u
          /\ got' = get(pages, u)
    /\ wop' = "get"
    /\ UNCHANGED <<fs, wpc, pages, fs_changed, codecVars, pageVars>>

\* The environment changes one entry of the tree.
FsChange ==
    /\ wpc = "ready"
    /\ \E e \in Entries, k \in Kinds :
          /\ fs[e] # k
          /\ fs' = [fs EXCEPT ![e] = k]
    /\ wop' = "fs"
    /\ fs_changed' = TRUE
    /\ asked' = <<>>
    /\ got' = 0
    /\ UNCHANGED <<wpc, pages, codecVars, pageVars>>

WikiNext == WikiNew \/ Reload \/ Get \/ FsChange

SpecWiki == WikiInit /\ [][WikiNext]_vars

(***************************************************************************)
(* C1: for all base and p such that p starts with base and ends with       *)
(* ".md", convert_url_to_path(base, convert_path_to_url(base, p)) = p.     *)
(***************************************************************************)
C1_RoundTrip ==
    (cpc = "path" /\ StartsWith(path, base) /\ EndsWith(path, MdExt))
        => back = path

(***************************************************************************)
(* C2: convert_path_to_url(base, path) is path with base removed once from *)
(* the front (when path starts with base) and then one ".md" removed from  *)
(* the end (when it ends with ".md").                                      *)
(***************************************************************************)
StripPrefixOnce(s, p) ==
    IF StartsWith(s, p) THEN SubSeq(s, Len(p) + 1, Len(s)) ELSE s

StripSuffixOnce(s, p) ==
    IF EndsWith(s, p) THEN SubSeq(s, 1, Len(s) - Len(p)) ELSE s

C2_Reference ==
    cpc \in {"url", "path"}
        => url = StripSuffixOnce(StripPrefixOnce(path, base), MdExt)

(***************************************************************************)
(* C3: a successful save_to_file() followed by a fresh Page::new_from_file *)
(* on the same path returns a Page whose meta and markdown_raw equal those *)
(* of the saved Page (save_to_file changes neither, see C9).               *)
(***************************************************************************)
C3_SaveLoadRoundTrip ==
    [][(io = "save_ok" /\ io' = "read_ok")
          => (page'.meta = page.meta /\ page'.markdown_raw = page.markdown_raw)]_vars

(***************************************************************************)
(* C6: when the file is read but splitting its content fails,              *)
(* new_from_file still returns Ok, and the Page has no meta, an empty      *)
(* markdown_raw and html, and the bytes read as raw.                       *)
(***************************************************************************)
C6_SplitFailureSwallowed ==
    (io = "read_ok" /\ ~parse_and_find_content(disk).ok)
        => /\ ret = "Ok"
           /\ pstate = "live"
           /\ page.meta = None
           /\ page.markdown_raw = <<>>
           /\ page.html = <<>>
           /\ page.raw = disk

C6_Witness ==
    /\ io = "read_ok"
    /\ ~parse_and_find_content(disk).ok
    /\ Len(disk) = MaxFileLen
    /\ page.raw = disk

(***************************************************************************)
(* C7: once update_markdown has run on a Page, html is the rendering of    *)
(* the current markdown_raw, whatever update_markdown and save_to_file     *)
(* calls follow.                                                           *)
(***************************************************************************)
C7_HtmlCurrent ==
    (pstate = "live" /\ page.rendered) => page.html = Render(page.markdown_raw)

\* update_markdown has just replaced the body that was loaded.
C7_Witness ==
    /\ pstate = "live"
    /\ page.rendered
    /\ io = "none"
    /\ page.markdown_raw = <<"x">>
    /\ parse_and_find_content(page.raw).content = <<"t">>
    /\ page.html = <<"<p>x</p>">>

(***************************************************************************)
(* C8: in every state of a loaded Page, raw is the content last read from  *)
(* or written to the backing file (which only this Page writes).           *)
(***************************************************************************)
C8_RawIsFileContent == pstate = "live" => page.raw = disk

(***************************************************************************)
(* C9: a successful save_to_file() leaves the file equal to raw, raw equal *)
(* to "---\n", the YAML of meta if present, "---\n" and markdown_raw, and  *)
(* meta, markdown_raw, html and url as they were.                          *)
(***************************************************************************)
C9_SaveSerializes ==
    [][io' = "save_ok"
          => /\ disk' = page'.raw
             /\ page'.raw = Delim
                            \o (IF page.meta.some
                                THEN YamlDump(page.meta.val) ELSE <<>>)
                            \o Delim
                            \o page.markdown_raw
             /\ page'.meta = page.meta
             /\ page'.markdown_raw = page.markdown_raw
             /\ page'.html = page.html
             /\ page'.url = page.url]_vars

C9_Witness ==
    /\ io = "save_ok"
    /\ page.meta.some
    /\ page.markdown_raw # <<>>
    /\ disk = page.raw

(***************************************************************************)
(* The Pages a completed walk of the current tree holds: one for each      *)
(* regular file whose name ends in ".md" and whose load succeeds.          *)
(***************************************************************************)
Loadable == {e \in Entries : fs[e] = "file" /\ EndsWith(EntryPath[e], MdExt)}

PagesExact(ps) ==
    /\ {ps[i].path : i \in DOMAIN ps} = {EntryPath[e] : e \in Loadable}
    /\ Len(ps) = Cardinality(Loadable)

UrlSet(ps) == {ps[i].url : i \in DOMAIN ps}

(***************************************************************************)
(* C4: Wiki::new always completes and returns a Wiki whose pages are       *)
(* exactly the loadable ".md" files, whatever the tree holds.              *)
(***************************************************************************)
C4_NewAlwaysCompletes == wop = "new" => (wpc = "ready" /\ PagesExact(pages))

(***************************************************************************)
(* C5: get(url) is None exactly when no Page has that url, and otherwise   *)
(* the Page of smallest index with that url.                               *)
(***************************************************************************)
C5_GetFirstMatch ==
    wop = "get"
        => /\ got = 0 <=> ~\E i \in DOMAIN pages : pages[i].url = asked
           /\ got # 0 => /\ got \in DOMAIN pages
                         /\ pages[got].url = asked
                         /\ \A j \in 1..(got - 1) : pages[j].url # asked

C5_Witness ==
    /\ wop = "get"
    /\ got = 1
    /\ \E j \in DOMAIN pages : j > 1 /\ pages[j].url = asked

(***************************************************************************)
(* C10: a load_pages on a populated Wiki that completes leaves exactly one *)
(* Page per currently loadable ".md" file, none from the earlier load for  *)
(* a file that is gone or unreadable, none twice; with an unchanged tree   *)
(* the set of urls is the same as before.                                  *)
(***************************************************************************)
C10_ReloadRebuilds ==
    [][(wop' = "reload" /\ wpc' = "ready")
          => /\ PagesExact(pages')
             /\ ~fs_changed => UrlSet(pages') = UrlSet(pages)]_vars

C10_Witness ==
    /\ wop = "reload"
    /\ wpc = "ready"
    /\ Len(pages) = 2
    /\ \E e \in Entries : fs[e] = "unreadable_file"

====
